---- MODULE Spec2Model ----
(***************************************************************************)
(* Model of pkg/controller/controller.go: the SparkApplication controller. *)
(* One job key; the shared informer, the rate limited work queue, the      *)
(* worker pool, the pod state consumer and the status updater are modelled *)
(* at the granularity of one API or queue call per step.                   *)
(***************************************************************************)
EXTENDS Integers, Sequences, FiniteSets, TLC

\* ---------------------------------------------------------------- bounds
MaxDeletes == 1          \* times the user deletes the job
MaxRecreates == 1        \* times the user creates the job again after deleting it
MaxDriverUpdates == 2    \* driver observations the pod monitor reports
MaxFailures == 1         \* the rate limiter's failure count saturates here
MaxPodUpdates == 2       \* driver and executor observations of any kind reported
MaxRacingUpdates == 2    \* updates of all three kinds when the consumers race

\* ------------------------------------------------------ program constants
maximumUpdateRetries == 3

Workers == {"w1", "w2"}
SingleWorker == {"w1"}
PodConsumer == "pod"
AppConsumer == "app"
Threads == Workers \cup {PodConsumer, AppConsumer}
Key == "ns1/wordcount"

Never == "Never"
Undefined == ""
OnFailure == "OnFailure"
Always == "Always"
Policies == {Never, Undefined, OnFailure, Always}

\* The job specifications a user may apply: the restart policy, and whether
\* the submission arguments can be built from the specification.
Manifests == [policy : Policies, buildable : BOOLEAN]

NewState == "NEW"
SubmittedState == "SUBMITTED"
RunningState == "RUNNING"
CompletedState == "COMPLETED"
FailedState == "FAILED"
FailedSubmissionState == "SUBMISSION_FAILED"
UnknownState == "UNKNOWN"

PodPending == "Pending"
PodRunning == "Running"
PodSucceeded == "Succeeded"
PodFailed == "Failed"
PodUnknown == "Unknown"

ExecutorPendingState == "PENDING"
ExecutorRunningState == "RUNNING"

\* ------------------------------------------------------------------ data
\* v1alpha1.SparkApplicationStatus{}: the zero value of the status.
EmptyStatus ==
    [appID |-> 0, state |-> "", errorMessage |-> "",
     podName |-> "", webUIAddress |-> "",
     executorStateNil |-> TRUE, executorState |-> {},
     submissionTime |-> 0, completionTime |-> 0]

\* A nil *SparkApplication, and the value of an absent store or API entry.
\* The resource version of a copy is kept as one bit, fresh: whether it is the
\* version the API server stores now, which is all that Update compares.
NoApp ==
    [exists |-> FALSE, uid |-> 0, fresh |-> FALSE, policy |-> Undefined,
     buildable |-> FALSE, status |-> EmptyStatus]

\* An update message on one of the controller's channels: `type' is its Go
\* type, and the fields its type does not have stay at their zero values.
NoUpdate ==
    [type |-> "", podName |-> "", podPhase |-> "", nodeName |-> "", completionTime |-> 0,
     state |-> "", errorMessage |-> "", submissionTime |-> 0]

driverStateUpdate(podPhase, nodeName, completionTime) ==
    [NoUpdate EXCEPT !.type = "driver", !.podName = "driver", !.podPhase = podPhase,
                     !.nodeName = nodeName, !.completionTime = completionTime]

executorStateUpdate(state) ==
    [NoUpdate EXCEPT !.type = "executor", !.podName = "exec-1", !.state = state]

appStateUpdate(state, errorMessage, submissionTime) ==
    [NoUpdate EXCEPT !.type = "app", !.state = state, !.errorMessage = errorMessage,
                     !.submissionTime = submissionTime]

\* The update messages the pod monitor may report for the job's driver.
DriverUpdates ==
    { driverStateUpdate(PodRunning, "", 0), driverStateUpdate(PodFailed, "node", 1) }

\* Driver updates of every phase: the four the mapping names, the phase
\* "Unknown" and the empty phase of a pod that has none yet.
AllDriverUpdates ==
    { driverStateUpdate(ph, "", 0) : ph \in {PodPending, PodRunning, PodUnknown, ""} }
    \cup
    { driverStateUpdate(ph, "", 1) : ph \in {PodSucceeded, PodFailed} }

\* The update messages the pod monitor may report for the job's executor.
ExecutorUpdates ==
    { executorStateUpdate(st) : st \in {ExecutorPendingState, ExecutorRunningState} }

\* The update messages the submission runner may report for a submission.
AppUpdates ==
    { appStateUpdate(SubmittedState, "", 1),
      appStateUpdate(FailedSubmissionState, "failed", 0),
      appStateUpdate(FailedState, "failed", 0),
      appStateUpdate(CompletedState, "", 0) }

VARIABLES
    manifest,     \* the job specification the user applies
    api,          \* the resource as persisted by the API server
    creates, deletes,
    store,        \* the informer's cache (s.store)
    queue, dirty, processing,   \* the work queue (s.queue)
    waiting,      \* keys the rate limiter will add after their delay
    failures,     \* the rate limiter's failure count of the key
    pc,           \* each thread's position
    original, toUpdate, updateFunc, i,   \* locals of updateSparkApplicationWithRetries
    ret,          \* what updateSparkApplicationWithRetries returned
    clock,        \* time.Now() as read by buildAppID
    driverSent,   \* driver updates reported so far
    executorSent, \* executor updates reported so far
    appSent,      \* application state updates reported so far
    swallowed,    \* pod updates dropped because the store had no such job
    submitted,    \* the number of submissions handed to s.runner
    events,       \* the events recorded, by reason
    outcomes,     \* history: results of the Update calls of the current updater call
    fetched,      \* history: the objects the current updater call re-fetched, in order
    base,         \* history: the object updateFunc was last applied to
    nSubmit       \* history: submit calls made by the current submitApp call

vars == <<manifest, api, creates, deletes, store, queue, dirty, processing,
          waiting, failures, pc, original, toUpdate, updateFunc, i, ret, clock,
          driverSent, executorSent, appSent, swallowed, submitted, events, outcomes,
          fetched, base, nSubmit>>

apiVars == <<manifest, api>>
envVars == <<creates, deletes, driverSent, executorSent, appSent, swallowed>>
queueVars == <<queue, dirty, processing, waiting, failures>>
callVars == <<original, toUpdate, updateFunc, i, ret, outcomes, fetched, base, nSubmit>>

\* ------------------------------------------------------------- work queue
\* s.queue is a client-go rate limiting work queue: a FIFO of keys (queue), the
\* set of keys that need processing (dirty), the set of keys handed out by Get
\* and not yet marked Done (processing), and the keys whose rate limited add is
\* still waiting for its delay (waiting).

\* AddRateLimited(key): count the failure and add the key after the delay.
AddRateLimited(k) ==
    /\ waiting' = waiting \cup {k}
    /\ failures' = IF failures < MaxFailures THEN failures + 1 ELSE failures

\* Add(key), which the delaying queue calls when the delay is over.
queueAdd(k) ==
    IF k \in dirty
    THEN UNCHANGED <<queue, dirty>>
    ELSE /\ dirty' = dirty \cup {k}
         /\ queue' = IF k \in processing THEN queue ELSE Append(queue, k)

\* Done(key) on the queue state (q, d, p): the resulting queue and processing set.
queueDone(q, d, p, k) ==
    [queue |-> IF k \in d THEN Append(q, k) ELSE q,
     processing |-> p \ {k}]

\* The delay of a rate limited add is over: the key is added to the queue.
DelayedAdd ==
    /\ Key \in waiting
    /\ waiting' = waiting \ {Key}
    /\ queueAdd(Key)
    /\ UNCHANGED <<processing, failures>>
    /\ UNCHANGED <<apiVars, envVars, store, pc, callVars, clock, submitted, events>>

\* ------------------------------------------------------------ environment
\* A write to the resource gives it a new resource version: every copy taken
\* before carries an old one from then on.
old(app) == [app EXCEPT !.fresh = FALSE]

oldAll(copies) == [t \in Threads |-> old(copies[t])]

outdate ==
    /\ store' = old(store)
    /\ original' = oldAll(original)
    /\ toUpdate' = oldAll(toUpdate)
    /\ ret' = oldAll(ret)
    /\ base' = oldAll(base)
    /\ fetched' = [t \in Threads |-> [n \in 1..Len(fetched[t]) |-> old(fetched[t][n])]]

\* The object the API server stores when the user applies the manifest: a new
\* UID, the first resource version and an empty status.
created ==
    [exists |-> TRUE, uid |-> creates + 1, fresh |-> TRUE, policy |-> manifest.policy,
     buildable |-> manifest.buildable, status |-> EmptyStatus]

\* A user creates the job.
UserCreate ==
    /\ ~api.exists
    /\ creates = 0
    /\ api' = created
    /\ creates' = creates + 1
    /\ UNCHANGED <<manifest, deletes, driverSent, executorSent, appSent, swallowed,
                   store, queueVars, pc,
                   callVars, clock, submitted, events>>

\* A user creates the job again after it was deleted.
UserRecreate ==
    /\ ~api.exists
    /\ creates > 0
    /\ creates < 1 + MaxRecreates
    /\ api' = created
    /\ creates' = creates + 1
    /\ UNCHANGED <<manifest, deletes, driverSent, executorSent, appSent, swallowed,
                   store, queueVars, pc,
                   callVars, clock, submitted, events>>

\* A user deletes the job.
UserDelete ==
    /\ api.exists
    /\ deletes < MaxDeletes
    /\ api' = NoApp
    /\ deletes' = deletes + 1
    /\ outdate
    /\ UNCHANGED <<manifest, creates, driverSent, executorSent, appSent, swallowed,
                   queueVars, pc, updateFunc, i,
                   outcomes, nSubmit, clock, submitted, events>>

\* Another API client writes the resource (its spec or metadata): only the
\* resource version changes.
ExternalWrite ==
    /\ api.exists
    /\ outdate
    /\ UNCHANGED <<manifest, api, creates, deletes, driverSent, executorSent, appSent, swallowed,
                   queueVars, pc,
                   updateFunc, i, outcomes, nSubmit, clock, submitted, events>>

\* The informer's watch brings a newer version of the job into the cache; no
\* handler is registered for updates.
InformerUpdate ==
    /\ api.exists /\ store.exists
    /\ api.uid = store.uid
    /\ ~store.fresh
    /\ store' = api
    /\ UNCHANGED <<apiVars, envVars, queueVars, pc, callVars, clock, submitted, events>>

Record(reason) == events' = [events EXCEPT ![reason] = @ + 1]

\* ---------------------------------------------------------- event handlers
\* The informer adds the job to the cache and calls onAdd.
onAdd ==
    /\ api.exists /\ ~store.exists
    /\ store' = api
    /\ Record("SparkApplicationSubmission")
    /\ AddRateLimited(Key)
    /\ UNCHANGED <<queue, dirty, processing>>
    /\ UNCHANGED <<apiVars, envVars, pc, callVars, clock, submitted>>

\* The informer removes the job from the cache and calls onDelete.
onDelete ==
    /\ store.exists
    /\ ~api.exists \/ api.uid # store.uid
    /\ store' = NoApp
    /\ Record("SparkApplicationDeletion")
    /\ failures' = 0
    /\ LET d == queueDone(queue, dirty, processing, Key)
       IN  /\ queue' = d.queue
           /\ processing' = d.processing
    /\ UNCHANGED <<dirty, waiting>>
    /\ UNCHANGED <<apiVars, envVars, pc, callVars, clock, submitted>>

\* --------------------------------------------------------- pure functions
isAppTerminated(appState) ==
    appState = CompletedState \/ appState = FailedState

\* A mapping without a default: a phase it does not know leaves the state empty.
driverPodPhaseToApplicationStateNoDefault(podPhase) ==
    CASE podPhase = PodPending -> SubmittedState
      [] podPhase = PodRunning -> RunningState
      [] podPhase = PodSucceeded -> CompletedState
      [] podPhase = PodFailed -> FailedState
      [] OTHER -> ""

\* driverPodPhaseToApplicationState: the switch over the driver pod's phase.
driverPodPhaseToApplicationState(podPhase) ==
    CASE podPhase = PodPending -> SubmittedState
      [] podPhase = PodRunning -> RunningState
      [] podPhase = PodSucceeded -> CompletedState
      [] podPhase = PodFailed -> FailedState
      [] OTHER -> UnknownState

\* buildAppID: "<name>-<hash of name, namespace, UID and the current time>";
\* the identifier is represented by the time it was built at, which is at least 1.
buildAppID(app, now) == now

\* createSparkUIService: ensures the UI service exists, an effect outside the
\* resource; the status is left as it is.
createSparkUIService(app) == app

\* buildSubmissionCommandArgs: a function of the job's spec that may fail.
buildSubmissionCommandArgs(app) ==
    [err |-> ~app.buildable, args |-> IF app.buildable THEN "args" ELSE ""]

\* The node's external IP as getNodeExternalIP may resolve it ("": none).
NodeIPs == {"", "10.0.0.1"}

\* submitFunc that forgets to set the state.
submitFuncNoState(app, resubmission, now) ==
    LET cleared == IF resubmission THEN [app EXCEPT !.status = EmptyStatus] ELSE app
    IN  createSparkUIService([cleared EXCEPT !.status.appID = buildAppID(cleared, now)])

\* submitFunc that keeps the previous status on a resubmission.
submitFuncNoClear(app, resubmission, now) ==
    LET withID == [app EXCEPT !.status.appID = buildAppID(app, now)]
    IN  createSparkUIService([withID EXCEPT !.status.state = NewState])

\* The closure submitApp passes to the status updater.
submitFunc(app, resubmission, now) ==
    LET cleared == IF resubmission THEN [app EXCEPT !.status = EmptyStatus] ELSE app
        withID == [cleared EXCEPT !.status.appID = buildAppID(cleared, now)]
    IN  createSparkUIService([withID EXCEPT !.status.state = NewState])

\* A driver closure that drops the completion time.
driverFuncNoCompletionTime(app, update, nodeIP) ==
    [app EXCEPT !.status.podName = update.podName,
                !.status.state = driverPodPhaseToApplicationState(update.podPhase)]

\* The closure processSingleDriverStateUpdate passes to the status updater.
driverFunc(app, update, nodeIP) ==
    LET named == [app EXCEPT !.status.podName = update.podName]
        addressed == IF update.nodeName # "" /\ nodeIP # ""
                     THEN [named EXCEPT !.status.webUIAddress = nodeIP \o ":0"]
                     ELSE named
        stated == [addressed EXCEPT !.status.state =
                      driverPodPhaseToApplicationState(update.podPhase)]
    IN  IF update.completionTime # 0
        THEN [stated EXCEPT !.status.completionTime = update.completionTime]
        ELSE stated

\* The closure processSingleAppStateUpdate passes to the status updater.
appFunc(app, update) ==
    LET stated == [app EXCEPT !.status.state = update.state,
                              !.status.errorMessage = update.errorMessage]
    IN  IF update.submissionTime # 0
        THEN [stated EXCEPT !.status.submissionTime = update.submissionTime]
        ELSE stated

\* The closure processSingleExecutorStateUpdate passes to the status updater:
\* a nil map is made first, then every state but Pending is entered.  The map
\* is the set of its (pod name, state) entries.
executorFunc(app, update) ==
    LET made == [app EXCEPT !.status.executorStateNil = FALSE]
    IN  IF update.state # ExecutorPendingState
        THEN [made EXCEPT !.status.executorState =
                 {e \in @ : e[1] # update.podName} \cup {<<update.podName, update.state>>}]
        ELSE made

NoFunc == [kind |-> "none", resubmission |-> FALSE, update |-> NoUpdate]

\* updateFunc(toUpdate) for the closure fn.
apply(fn, app, now, nodeIP) ==
    CASE fn.kind = "submit" -> submitFunc(app, fn.resubmission, now)
      [] fn.kind = "driver" -> driverFunc(app, fn.update, nodeIP)
      [] fn.kind = "app" -> appFunc(app, fn.update)
      [] fn.kind = "executor" -> executorFunc(app, fn.update)
      [] OTHER -> app

\* A comparison that never finds the statuses equal.
DeepEqualNever(a, b) == FALSE

DeepEqual(a, b) == a = b

\* tryUpdate that applies the closure to the status of the original snapshot.
tryUpdateOnOriginal(orig, toUpd, fn, now, nodeIP) ==
    LET mutated == apply(fn, [toUpd EXCEPT !.status = orig.status], now, nodeIP)
    IN  [toUpdate |-> mutated, write |-> ~DeepEqual(orig.status, mutated.status)]

\* tryUpdate up to its Update call: the mutated copy and whether a write is needed.
tryUpdate(orig, toUpd, fn, now, nodeIP) ==
    LET mutated == apply(fn, toUpd, now, nodeIP)
    IN  [toUpdate |-> mutated, write |-> ~DeepEqual(orig.status, mutated.status)]

\* A loop condition that allows one attempt more.
retriesLeftOffByOne(n) == n <= maximumUpdateRetries

\* The loop condition of updateSparkApplicationWithRetries.
retriesLeft(n) == n < maximumUpdateRetries

\* -------------------------------------------------------- status updater
\* A thread calls updateSparkApplicationWithRetries(app, app.DeepCopy(), fn).
beginUpdate(t, app, fn) ==
    /\ original' = [original EXCEPT ![t] = app]
    /\ toUpdate' = [toUpdate EXCEPT ![t] = app]
    /\ updateFunc' = [updateFunc EXCEPT ![t] = fn]
    /\ i' = [i EXCEPT ![t] = 0]
    /\ ret' = [ret EXCEPT ![t] = NoApp]
    /\ outcomes' = [outcomes EXCEPT ![t] = <<>>]
    /\ fetched' = [fetched EXCEPT ![t] = <<>>]
    /\ base' = [base EXCEPT ![t] = NoApp]
    /\ nSubmit' = [nSubmit EXCEPT ![t] = 0]
    /\ pc' = [pc EXCEPT ![t] = "try"]

\* The thread leaves its handler: its locals go out of scope.
endCall(t) ==
    /\ original' = [original EXCEPT ![t] = NoApp]
    /\ toUpdate' = [toUpdate EXCEPT ![t] = NoApp]
    /\ updateFunc' = [updateFunc EXCEPT ![t] = NoFunc]
    /\ i' = [i EXCEPT ![t] = 0]
    /\ ret' = [ret EXCEPT ![t] = NoApp]
    /\ outcomes' = [outcomes EXCEPT ![t] = <<>>]
    /\ fetched' = [fetched EXCEPT ![t] = <<>>]
    /\ base' = [base EXCEPT ![t] = NoApp]
    /\ nSubmit' = [nSubmit EXCEPT ![t] = 0]
    /\ pc' = [pc EXCEPT ![t] = "idle"]

\* An API server that accepts an update whatever its resource version.
updateResultLastWriterWins(obj) ==
    IF ~api.exists THEN "notfound" ELSE "ok"

\* The result of Update(obj) at the API server.
updateResult(obj) ==
    IF ~api.exists THEN "notfound"
    ELSE IF ~obj.fresh THEN "conflict"
    ELSE "ok"

\* One iteration of the retry loop up to the end of tryUpdate: apply the
\* closure, return nil if nothing changed, else call Update.
updateAttempt(t) ==
    /\ pc[t] = "try"
    /\ \E nodeIP \in NodeIPs :
        LET r == tryUpdate(original[t], toUpdate[t], updateFunc[t], clock, nodeIP)
            res == updateResult(r.toUpdate)
        IN  /\ clock' = IF updateFunc[t].kind = "submit" THEN clock + 1 ELSE clock
            /\ IF ~r.write
               THEN /\ pc' = [pc EXCEPT ![t] = "returned"]
                    /\ toUpdate' = [toUpdate EXCEPT ![t] = r.toUpdate]
                    /\ base' = [base EXCEPT ![t] = toUpdate[t]]
                    /\ UNCHANGED <<api, store, original, fetched, ret, outcomes>>
               ELSE /\ outcomes' = [outcomes EXCEPT ![t] = Append(@, res)]
                    /\ IF res = "ok"
                       THEN /\ api' = r.toUpdate
                            /\ store' = old(store)
                            /\ original' = oldAll(original)
                            /\ toUpdate' = oldAll([toUpdate EXCEPT ![t] = r.toUpdate])
                            /\ base' = oldAll([base EXCEPT ![t] = toUpdate[t]])
                            /\ fetched' = [u \in Threads |->
                                  [n \in 1..Len(fetched[u]) |-> old(fetched[u][n])]]
                            /\ ret' = [oldAll(ret) EXCEPT ![t] = r.toUpdate]
                            /\ pc' = [pc EXCEPT ![t] = "returned"]
                       ELSE /\ pc' = [pc EXCEPT ![t] = "refetch"]
                            /\ toUpdate' = [toUpdate EXCEPT ![t] = r.toUpdate]
                            /\ base' = [base EXCEPT ![t] = toUpdate[t]]
                            /\ UNCHANGED <<api, store, original, fetched, ret>>
    /\ UNCHANGED <<updateFunc, i, nSubmit>>
    /\ UNCHANGED <<manifest, envVars, queueVars, submitted, events>>

\* The rest of the iteration after a failed Update: get the latest version,
\* give up if that fails or if no attempt is left.
refetch(t) ==
    /\ pc[t] = "refetch"
    /\ IF ~api.exists
       THEN /\ pc' = [pc EXCEPT ![t] = "returned"]
            /\ fetched' = [fetched EXCEPT ![t] = Append(@, NoApp)]
            /\ UNCHANGED <<toUpdate, i>>
       ELSE /\ toUpdate' = [toUpdate EXCEPT ![t] = api]
            /\ fetched' = [fetched EXCEPT ![t] = Append(@, api)]
            /\ i' = [i EXCEPT ![t] = @ + 1]
            /\ pc' = [pc EXCEPT ![t] = IF retriesLeft(i[t] + 1) THEN "try" ELSE "returned"]
    /\ UNCHANGED <<original, updateFunc, ret, outcomes, base, nSubmit>>
    /\ UNCHANGED <<apiVars, envVars, store, queueVars, clock, submitted, events>>

\* ------------------------------------------------------------ worker pool
\* processNextItem: s.queue.Get().
workerGet(w) ==
    /\ pc[w] = "idle"
    /\ queue # <<>>
    /\ Head(queue) = Key
    /\ queue' = Tail(queue)
    /\ processing' = processing \cup {Key}
    /\ dirty' = dirty \ {Key}
    /\ pc' = [pc EXCEPT ![w] = "sync"]
    /\ UNCHANGED <<waiting, failures>>
    /\ UNCHANGED <<apiVars, envVars, store, callVars, clock, submitted, events>>

\* A syncSparkApplication that also reports a rejected status update.
syncErrorOnNoUpdate(found, updated) == ~found \/ ~updated

\* Whether syncSparkApplication returns an error, given whether the lookup
\* found the job and whether submitApp's status update returned an object:
\* only the lookup's error is returned, submitApp returns nothing.
syncError(found, updated) == ~found

\* processNextItem after syncSparkApplication returned: Forget on nil, report
\* and AddRateLimited on an error; then the deferred Done.
processed(err) ==
    /\ IF err
       THEN AddRateLimited(Key)
       ELSE /\ failures' = 0
            /\ UNCHANGED waiting
    /\ LET d == queueDone(queue, dirty, processing, Key)
       IN  /\ queue' = d.queue
           /\ processing' = d.processing
    /\ UNCHANGED dirty

\* syncSparkApplication's lookup: its error goes back to processNextItem,
\* otherwise submitApp(app, false) starts its status update.
syncSparkApplication(w) ==
    /\ pc[w] = "sync"
    /\ IF ~store.exists
       THEN /\ processed(syncError(FALSE, FALSE))
            /\ UNCHANGED callVars
            /\ pc' = [pc EXCEPT ![w] = "idle"]
       ELSE /\ beginUpdate(w, store, [NoFunc EXCEPT !.kind = "submit"])
            /\ UNCHANGED queueVars
    /\ UNCHANGED <<apiVars, envVars, store, clock, submitted, events>>

\* A submitApp that goes on after "no update".
submitsAlways(updatedApp) == TRUE

\* Whether submitApp reaches s.runner.submit: it returns early only when the
\* status update returned nil; an error of buildSubmissionCommandArgs is
\* logged and the submission is handed over all the same.
submits(updatedApp) == updatedApp # NoApp

\* submitApp after its status update returned.
submitApp(t) ==
    /\ pc[t] = "returned"
    /\ updateFunc[t].kind = "submit"
    /\ IF submits(ret[t])
       THEN /\ submitted' = submitted + 1
            /\ nSubmit' = [nSubmit EXCEPT ![t] = @ + 1]
       ELSE UNCHANGED <<submitted, nSubmit>>
    /\ pc' = [pc EXCEPT ![t] = "submitted"]
    /\ UNCHANGED <<original, toUpdate, updateFunc, i, ret, outcomes, fetched, base>>
    /\ UNCHANGED <<apiVars, envVars, store, queueVars, clock, events>>

\* submitApp returned to syncSparkApplication, and that to processNextItem.
workerDone(w) ==
    /\ pc[w] = "submitted"
    /\ processed(syncError(TRUE, ret[w] # NoApp))
    /\ endCall(w)
    /\ UNCHANGED <<apiVars, envVars, store, clock, submitted, events>>

\* ------------------------------------------------------------- job store
\* A lookup that hands out whatever the store holds and never reports an error.
getSparkApplicationFromStoreNoError(cache) == [found |-> TRUE, app |-> cache]

\* getSparkApplicationFromStore: the cached object, or a not-found error when
\* the store has no item under the key.
getSparkApplicationFromStore(cache) ==
    [found |-> cache.exists, app |-> IF cache.exists THEN cache ELSE NoApp]

\* ----------------------------------------------------- pod state consumer
\* A consumer that receives the next update while it still handles one.
receivesAnytime(t) == TRUE

\* A consumer's loop over its channel receives the next update only when the
\* body has returned for the one before.
receives(t) == pc[t] = "idle"

\* processPodStateUpdates receives a driver update and
\* processSingleDriverStateUpdate looks the job up: an absent job ends the
\* handling, otherwise the status update starts.
processSingleDriverStateUpdate ==
    /\ receives(PodConsumer)
    /\ driverSent < MaxDriverUpdates
    /\ submitted > 0
    /\ driverSent' = driverSent + 1
    /\ \E update \in DriverUpdates :
          IF ~store.exists
          THEN /\ swallowed' = swallowed + 1
               /\ UNCHANGED <<pc, callVars>>
          ELSE /\ beginUpdate(PodConsumer, store,
                              [NoFunc EXCEPT !.kind = "driver", !.update = update])
               /\ UNCHANGED swallowed
    /\ UNCHANGED <<apiVars, creates, deletes, executorSent, appSent, store,
                   queueVars, clock, submitted, events>>

\* A restart decision that resubmits under OnFailure whatever the final state.
handleRestartAnyOutcome(app) == app.policy \in {OnFailure, Always}

\* handleRestart's decision.
handleRestart(app) ==
    /\ app.policy # Never /\ app.policy # Undefined
    /\ \/ app.status.state = FailedState /\ app.policy = OnFailure
       \/ app.policy = Always

\* processSingleDriverStateUpdate after its status update returned, and the
\* rest of the loop body: the termination event, then handleRestart, which
\* starts submitApp(updatedApp, true) when the policy says so.
driverUpdated ==
    /\ pc[PodConsumer] = "returned"
    /\ updateFunc[PodConsumer].kind = "driver"
    /\ LET updated == ret[PodConsumer]
           terminated == updated # NoApp /\ isAppTerminated(updated.status.state)
           restart == terminated /\ handleRestart(updated)
       IN  /\ events' = [events EXCEPT
                 !["SparkApplicationTermination"] = IF terminated THEN @ + 1 ELSE @,
                 !["SparkApplicationResubmission"] = IF restart THEN @ + 1 ELSE @]
           /\ IF restart
              THEN beginUpdate(PodConsumer, updated,
                               [NoFunc EXCEPT !.kind = "submit", !.resubmission = TRUE])
              ELSE endCall(PodConsumer)
    /\ UNCHANGED <<apiVars, envVars, store, queueVars, clock, submitted>>

\* handleRestart's submitApp returned: the consumer takes the next update.
resubmitted ==
    /\ pc[PodConsumer] = "submitted"
    /\ endCall(PodConsumer)
    /\ UNCHANGED <<apiVars, envVars, store, queueVars, clock, submitted, events>>

\* processPodStateUpdates receives the next update from the channel, a driver
\* update of any phase or an executor update, and the handler of its type
\* looks the job up: an absent job ends the handling, otherwise the status
\* update starts.  The updates reported are among `updates', at most `budget'
\* of all kinds together.
processPodStateUpdates(updates, budget) ==
    /\ receives(PodConsumer)
    /\ driverSent + executorSent + appSent < budget
    /\ submitted > 0
    /\ \E update \in updates :
          LET isDriver == update.type = "driver"
              got == getSparkApplicationFromStore(store)
          IN  /\ driverSent' = IF isDriver THEN driverSent + 1 ELSE driverSent
              /\ executorSent' = IF isDriver THEN executorSent ELSE executorSent + 1
              /\ IF ~got.found
                 THEN /\ swallowed' = swallowed + 1
                      /\ UNCHANGED <<pc, callVars>>
                 ELSE /\ beginUpdate(PodConsumer, got.app,
                                     [NoFunc EXCEPT !.kind = IF isDriver THEN "driver" ELSE "executor",
                                                    !.update = update])
                      /\ UNCHANGED swallowed
    /\ UNCHANGED <<apiVars, creates, deletes, appSent, store, queueVars, clock,
                   submitted, events>>

\* processSingleExecutorStateUpdate after its status update returned: the
\* result is dropped and the consumer takes the next update.
executorUpdated ==
    /\ pc[PodConsumer] = "returned"
    /\ updateFunc[PodConsumer].kind = "executor"
    /\ endCall(PodConsumer)
    /\ UNCHANGED <<apiVars, envVars, store, queueVars, clock, submitted, events>>

\* ----------------------------------------------------- app state consumer
\* processAppStateUpdates receives an update the submission runner reports for
\* a submission it was handed, and processSingleAppStateUpdate looks the job
\* up: any lookup error ends the handling, otherwise the status update starts.
\* At most `budget' updates are reported in all.
processSingleAppStateUpdate(budget) ==
    /\ receives(AppConsumer)
    /\ appSent < submitted
    /\ driverSent + executorSent + appSent < budget
    /\ appSent' = appSent + 1
    /\ \E update \in AppUpdates :
          LET got == getSparkApplicationFromStore(store)
          IN  IF ~got.found
              THEN UNCHANGED <<pc, callVars>>
              ELSE beginUpdate(AppConsumer, got.app,
                               [NoFunc EXCEPT !.kind = "app", !.update = update])
    /\ UNCHANGED <<apiVars, creates, deletes, driverSent, executorSent, swallowed,
                   store, queueVars, clock, submitted, events>>

\* An app state consumer that evaluates the restart policy as the pod state
\* consumer does.
appStateUpdatedRestarting ==
    /\ pc[AppConsumer] = "returned"
    /\ updateFunc[AppConsumer].kind = "app"
    /\ LET updated == ret[AppConsumer]
           restart == /\ updated # NoApp
                      /\ isAppTerminated(updated.status.state)
                      /\ handleRestart(updated)
       IN  /\ events' = [events EXCEPT
                 !["SparkApplicationResubmission"] = IF restart THEN @ + 1 ELSE @]
           /\ IF restart
              THEN beginUpdate(AppConsumer, updated,
                               [NoFunc EXCEPT !.kind = "submit", !.resubmission = TRUE])
              ELSE endCall(AppConsumer)
    /\ UNCHANGED <<apiVars, envVars, store, queueVars, clock, submitted>>

\* processSingleAppStateUpdate after its status update returned: the failure
\* event, and nothing else.
appStateUpdated ==
    /\ pc[AppConsumer] = "returned"
    /\ updateFunc[AppConsumer].kind = "app"
    /\ LET updated == ret[AppConsumer]
       IN  IF updated # NoApp /\ updated.status.state = FailedSubmissionState
           THEN Record("SparkApplicationSubmissionFailure")
           ELSE UNCHANGED events
    /\ endCall(AppConsumer)
    /\ UNCHANGED <<apiVars, envVars, store, queueVars, clock, submitted>>

\* --------------------------------------------------------- specification
EventReasons == {"SparkApplicationSubmission", "SparkApplicationDeletion",
                 "SparkApplicationTermination", "SparkApplicationResubmission",
                 "SparkApplicationSubmissionFailure"}

Init ==
    /\ manifest \in Manifests
    /\ api = NoApp
    /\ creates = 0 /\ deletes = 0 /\ driverSent = 0 /\ executorSent = 0 /\ appSent = 0
    /\ swallowed = 0
    /\ store = NoApp
    /\ queue = <<>> /\ dirty = {} /\ processing = {} /\ waiting = {}
    /\ failures = 0
    /\ pc = [t \in Threads |-> "idle"]
    /\ original = [t \in Threads |-> NoApp]
    /\ toUpdate = [t \in Threads |-> NoApp]
    /\ updateFunc = [t \in Threads |-> NoFunc]
    /\ i = [t \in Threads |-> 0]
    /\ ret = [t \in Threads |-> NoApp]
    /\ outcomes = [t \in Threads |-> <<>>]
    /\ fetched = [t \in Threads |-> <<>>]
    /\ base = [t \in Threads |-> NoApp]
    /\ nSubmit = [t \in Threads |-> 0]
    /\ clock = 1
    /\ submitted = 0
    /\ events = [r \in EventReasons |-> 0]

Next ==
    \/ UserCreate
    \/ UserDelete
    \/ ExternalWrite
    \/ InformerUpdate
    \/ onAdd
    \/ onDelete
    \/ DelayedAdd
    \/ \E w \in Workers : workerGet(w)
    \/ \E w \in Workers : syncSparkApplication(w)
    \/ \E t \in Threads : updateAttempt(t)
    \/ \E t \in Threads : refetch(t)
    \/ \E t \in Threads : submitApp(t)
    \/ \E w \in Workers : workerDone(w)
    \/ processSingleDriverStateUpdate
    \/ driverUpdated
    \/ resubmitted

Spec == Init /\ [][Next]_vars

\* The queue and the worker pool when the user deletes the job and creates it
\* again; no pod is reported and no other client writes the resource.
NextQueue ==
    \/ UserCreate
    \/ UserRecreate
    \/ UserDelete
    \/ InformerUpdate
    \/ onAdd
    \/ onDelete
    \/ DelayedAdd
    \/ \E w \in Workers : workerGet(w)
    \/ \E w \in Workers : syncSparkApplication(w)
    \/ \E w \in Workers : updateAttempt(w)
    \/ \E w \in Workers : refetch(w)
    \/ \E w \in Workers : submitApp(w)
    \/ \E w \in Workers : workerDone(w)

SpecQueue == Init /\ [][NextQueue]_vars

\* The pod state consumer with every kind of update it can receive, next to
\* the worker pool and a user who may delete the job.
NextPod ==
    \/ UserCreate
    \/ UserDelete
    \/ InformerUpdate
    \/ onAdd
    \/ onDelete
    \/ DelayedAdd
    \/ \E w \in Workers : workerGet(w)
    \/ \E w \in Workers : syncSparkApplication(w)
    \/ \E t \in Threads : updateAttempt(t)
    \/ \E t \in Threads : refetch(t)
    \/ \E t \in Threads : submitApp(t)
    \/ \E w \in Workers : workerDone(w)
    \/ processPodStateUpdates(AllDriverUpdates \cup ExecutorUpdates, MaxPodUpdates)
    \/ driverUpdated
    \/ executorUpdated
    \/ resubmitted

SpecPod == Init /\ [][NextPod]_vars

\* The app state consumer and the pod state consumer side by side, behind a
\* pool of one worker.
NextConsumers ==
    \/ UserCreate
    \/ InformerUpdate
    \/ onAdd
    \/ DelayedAdd
    \/ \E w \in SingleWorker : workerGet(w)
    \/ \E w \in SingleWorker : syncSparkApplication(w)
    \/ \E t \in Threads : updateAttempt(t)
    \/ \E t \in Threads : refetch(t)
    \/ \E t \in Threads : submitApp(t)
    \/ \E w \in SingleWorker : workerDone(w)
    \/ processSingleAppStateUpdate(MaxRacingUpdates)
    \/ appStateUpdated
    \/ processPodStateUpdates(DriverUpdates \cup ExecutorUpdates, MaxRacingUpdates)
    \/ driverUpdated
    \/ executorUpdated
    \/ resubmitted

SpecConsumers == Init /\ [][NextConsumers]_vars

\* One job with restart policy Never from its creation to its completion: the
\* runner reports the submission, then the monitor reports the driver Running
\* and then Succeeded, each update once the one before has been handled.  No
\* other client writes the resource; the cache may lag.
InitScenario ==
    /\ Init
    /\ manifest = [policy |-> Never, buildable |-> TRUE]

scenarioAppStateUpdate ==
    /\ receives(AppConsumer)
    /\ submitted = 1
    /\ appSent = 0
    /\ appSent' = appSent + 1
    /\ LET got == getSparkApplicationFromStore(store)
       IN  IF ~got.found
           THEN UNCHANGED <<pc, callVars>>
           ELSE beginUpdate(AppConsumer, got.app,
                            [NoFunc EXCEPT !.kind = "app",
                                           !.update = appStateUpdate(SubmittedState, "", 1)])
    /\ UNCHANGED <<apiVars, creates, deletes, driverSent, executorSent, swallowed,
                   store, queueVars, clock, submitted, events>>

scenarioDriverStateUpdate ==
    /\ receives(PodConsumer)
    /\ appSent = 1 /\ pc[AppConsumer] = "idle"
    /\ driverSent < 2
    /\ driverSent' = driverSent + 1
    /\ LET got == getSparkApplicationFromStore(store)
           update == IF driverSent = 0
                     THEN driverStateUpdate(PodRunning, "node", 0)
                     ELSE driverStateUpdate(PodSucceeded, "node", 1)
       IN  IF ~got.found
           THEN /\ swallowed' = swallowed + 1
                /\ UNCHANGED <<pc, callVars>>
           ELSE /\ beginUpdate(PodConsumer, got.app,
                               [NoFunc EXCEPT !.kind = "driver", !.update = update])
                /\ UNCHANGED swallowed
    /\ UNCHANGED <<apiVars, creates, deletes, executorSent, appSent, store,
                   queueVars, clock, submitted, events>>

NextScenario ==
    \/ UserCreate
    \/ InformerUpdate
    \/ onAdd
    \/ DelayedAdd
    \/ \E w \in SingleWorker : workerGet(w)
    \/ \E w \in SingleWorker : syncSparkApplication(w)
    \/ \E t \in Threads : updateAttempt(t)
    \/ \E t \in Threads : refetch(t)
    \/ \E t \in Threads : submitApp(t)
    \/ \E w \in SingleWorker : workerDone(w)
    \/ scenarioAppStateUpdate
    \/ appStateUpdated
    \/ scenarioDriverStateUpdate
    \/ driverUpdated

SpecScenario == InitScenario /\ [][NextScenario]_vars

\* The pod monitor reports one and the same terminal observation of the job's
\* driver, the pod named "driver" failed at time 1, and delivers it again.
redeliveredDriverStateUpdate ==
    /\ receives(PodConsumer)
    /\ driverSent < MaxDriverUpdates
    /\ submitted > 0
    /\ driverSent' = driverSent + 1
    /\ LET got == getSparkApplicationFromStore(store)
       IN  IF ~got.found
           THEN /\ swallowed' = swallowed + 1
                /\ UNCHANGED <<pc, callVars>>
           ELSE /\ beginUpdate(PodConsumer, got.app,
                               [NoFunc EXCEPT !.kind = "driver",
                                              !.update = driverStateUpdate(PodFailed, "node", 1)])
                /\ UNCHANGED swallowed
    /\ UNCHANGED <<apiVars, creates, deletes, executorSent, appSent, store,
                   queueVars, clock, submitted, events>>

NextRedelivery ==
    \/ UserCreate
    \/ InformerUpdate
    \/ onAdd
    \/ DelayedAdd
    \/ \E w \in SingleWorker : workerGet(w)
    \/ \E w \in SingleWorker : syncSparkApplication(w)
    \/ \E t \in Threads : updateAttempt(t)
    \/ \E t \in Threads : refetch(t)
    \/ \E t \in Threads : submitApp(t)
    \/ \E w \in SingleWorker : workerDone(w)
    \/ redeliveredDriverStateUpdate
    \/ driverUpdated
    \/ resubmitted

SpecRedelivery == Init /\ [][NextRedelivery]_vars

TypeOK ==
    /\ pc \in [Threads -> {"idle", "sync", "try", "refetch", "returned", "submitted"}]
    /\ \A t \in Threads : i[t] \in 0..maximumUpdateRetries

\* ---------------------------------------------------------------- claims
InUpdater(t) == pc[t] \in {"try", "refetch", "returned", "submitted"}
Returned(t) == pc[t] \in {"returned", "submitted"}
Failed(outs) == \A n \in 1..Len(outs) : outs[n] # "ok"

\* C1: at most one worker at a time is between the queue's Get of the key and
\* the matching Done, whatever onAdd and onDelete do in between.
C1_OneWorkerPerKey ==
    Cardinality({w \in Workers : pc[w] # "idle"}) <= 1

\* C2: a worker that finds the dequeued key's job absent from the store treats
\* it as a success: the key is forgotten and not added to the queue again.
C2_NotFoundIsSuccess ==
    [][\A w \in Workers :
          (pc[w] = "sync" /\ ~store.exists /\ pc'[w] = "idle")
             => (failures' = 0 /\ waiting' = waiting)]_vars

\* C3: one call of updateSparkApplicationWithRetries makes at most 3 Update
\* attempts; a call whose attempts all failed returns nil, and a call that
\* returns nil has not changed the persisted resource.
C3_AtMostThreeAttempts ==
    \A t \in Threads :
        /\ Len(outcomes[t]) <= 3
        /\ (Returned(t) /\ Failed(outcomes[t])) => ret[t] = NoApp
        /\ (Returned(t) /\ ret[t] = NoApp) => Failed(outcomes[t])

C3_Witness ==
    \E t \in Threads :
        /\ pc[t] = "returned"
        /\ Len(outcomes[t]) = 3
        /\ Failed(outcomes[t])
        /\ Len(fetched[t]) = 3
        /\ ret[t] = NoApp

\* C4: when the first 2 Update attempts are rejected with a conflict and the
\* 3rd is accepted, the call made exactly 3 attempts and 2 re-fetches, and the
\* object it returns (the persisted one) is the closure applied to the version
\* fetched last.
C4_RetryOnLatest ==
    \A t \in Threads :
        (Returned(t) /\ Len(outcomes[t]) >= 3
           /\ outcomes[t][1] = "conflict" /\ outcomes[t][2] = "conflict"
           /\ outcomes[t][3] = "ok")
        => /\ Len(outcomes[t]) = 3
           /\ Len(fetched[t]) = 2
           /\ base[t] = fetched[t][2]
           /\ ret[t].exists
           /\ \E now \in 1..clock, nodeIP \in NodeIPs :
                 ret[t].status = apply(updateFunc[t], fetched[t][2], now, nodeIP).status

C4_Witness ==
    \E t \in Threads :
        /\ pc[t] = "returned"
        /\ outcomes[t] = <<"conflict", "conflict", "ok">>
        /\ Len(fetched[t]) = 2
        /\ fetched[t][2].status # original[t].status
        /\ \A now \in 1..clock, nodeIP \in NodeIPs :
              ret[t].status # apply(updateFunc[t], original[t], now, nodeIP).status

\* C5: when the closure applied to the copy of the snapshot leaves the status
\* deep-equal to the snapshot's, the updater returns nil and has called
\* neither Update nor Get.
C5_NoChangeNoCalls ==
    \A t \in Threads :
        (pc[t] = "returned" /\ i[t] = 0 /\ base[t] = original[t]
           /\ original[t].status = toUpdate[t].status)
        => /\ ret[t] = NoApp
           /\ outcomes[t] = <<>>
           /\ fetched[t] = <<>>

C5_Witness ==
    \E t \in Threads :
        /\ pc[t] = "returned" /\ i[t] = 0
        /\ base[t] = original[t] /\ original[t].exists
        /\ updateFunc[t].kind = "driver"
        /\ toUpdate[t].status = original[t].status
        /\ outcomes[t] = <<>> /\ fetched[t] = <<>>

C7_BuildFailureSkips ==
    \A t \in Threads :
        (pc[t] = "submitted" /\ ret[t] # NoApp /\ buildSubmissionCommandArgs(ret[t]).err)
           => nSubmit[t] = 0

\* C8: a submitApp whose status update returned nil hands no submission to the
\* runner, on a first submission and on a resubmission.
C8_NoUpdateNoSubmission ==
    \A t \in Threads :
        (pc[t] = "submitted" /\ ret[t] = NoApp) => nSubmit[t] = 0

C8_Witness ==
    \E t \in Threads :
        /\ pc[t] = "submitted" /\ ret[t] = NoApp
        /\ updateFunc[t].resubmission
        /\ Len(outcomes[t]) = 3
        /\ nSubmit[t] = 0

\* C9: submitApp(job, false) on a job without status whose arguments build and
\* whose write is accepted persists a non-empty appID and state New, and makes
\* exactly one submit call.
C9_FirstSubmission ==
    \A t \in Threads :
        (pc[t] = "submitted" /\ ~updateFunc[t].resubmission
           /\ original[t].status = EmptyStatus
           /\ ~buildSubmissionCommandArgs(original[t]).err
           /\ ret[t] # NoApp)
        => /\ ret[t].status.appID # 0
           /\ ret[t].status.state = NewState
           /\ nSubmit[t] = 1

C9_Witness ==
    \E w \in Workers :
        /\ pc[w] = "submitted" /\ ~updateFunc[w].resubmission
        /\ original[w].status = EmptyStatus /\ original[w].buildable
        /\ ret[w].exists /\ ret[w].status.state = NewState
        /\ nSubmit[w] = 1

Terminal(t) ==
    /\ pc[t] = "returned"
    /\ updateFunc[t].kind = "driver"
    /\ ret[t].exists
    /\ ret[t].status.state \in {CompletedState, FailedState}

\* The thread has started submitApp(app, true).
Resubmitting(t) ==
    /\ pc[t] = "try"
    /\ updateFunc[t].kind = "submit"
    /\ updateFunc[t].resubmission

\* C11: for a job that a driver update brought to Completed or Failed, the
\* restart evaluation calls submitApp with resubmission = true exactly when
\* the state is Failed and the policy OnFailure, or the policy is Always; for
\* Never, Undefined and (Completed, OnFailure) it does nothing and the
\* consumer is idle again.
C11_RestartTable ==
    [][(Terminal(PodConsumer) /\ pc'[PodConsumer] # "returned")
          => LET state == ret[PodConsumer].status.state
                 policy == ret[PodConsumer].policy
                 resubmit == \/ state = FailedState /\ policy = OnFailure
                             \/ policy = Always
             IN  /\ resubmit => /\ Resubmitting(PodConsumer)'
                                /\ original'[PodConsumer].status.state = state
                 /\ ~resubmit => /\ pc'[PodConsumer] = "idle"
                                 /\ updateFunc'[PodConsumer].kind = "none"
                                 /\ events'["SparkApplicationResubmission"] =
                                       events["SparkApplicationResubmission"]
                 /\ policy \in {Never, Undefined} => ~resubmit
                 /\ (state = CompletedState /\ policy = OnFailure) => ~resubmit]_vars

C11_Witness ==
    /\ Resubmitting(PodConsumer)
    /\ original[PodConsumer].status.state = CompletedState
    /\ original[PodConsumer].policy = Always
    /\ events["SparkApplicationResubmission"] = 1

\* The pod state consumer is in tryUpdate with an executor update of state
\* Pending.
PendingExecutorAttempt ==
    /\ pc[PodConsumer] = "try"
    /\ updateFunc[PodConsumer].kind = "executor"
    /\ updateFunc[PodConsumer].update.state = ExecutorPendingState

\* C12: handling an executor update of state Pending writes nothing: no Update
\* call is made and the persisted resource, its executor-state mapping
\* included, stays as it was, also when the mapping was never set.
C12_PendingWritesNothing ==
    [][(PendingExecutorAttempt /\ pc'[PodConsumer] # "try")
          => /\ outcomes'[PodConsumer] = outcomes[PodConsumer]
             /\ api' = api]_vars

\* The pod state consumer holds a terminal job that the policy restarts.
RestartDue ==
    /\ Terminal(PodConsumer)
    /\ \/ ret[PodConsumer].status.state = FailedState /\ ret[PodConsumer].policy = OnFailure
       \/ ret[PodConsumer].policy = Always

\* C13: the pod state consumer takes an update from the channel only when it
\* is idle; with a restart due its next step starts submitApp(app, true)
\* without taking an update, and it is idle again only after that call made
\* its Update attempt and, if the write was accepted, the submit call.
C13_RestartBeforeNextUpdate ==
    [][/\ (driverSent' # driverSent \/ executorSent' # executorSent)
            => pc[PodConsumer] = "idle" /\ updateFunc[PodConsumer].kind = "none"
       /\ (RestartDue /\ pc'[PodConsumer] # pc[PodConsumer])
            => /\ Resubmitting(PodConsumer)'
               /\ driverSent' = driverSent /\ executorSent' = executorSent
       /\ (updateFunc[PodConsumer].kind = "submit" /\ pc'[PodConsumer] # "idle")
            => /\ updateFunc'[PodConsumer].kind = "submit"
               /\ updateFunc'[PodConsumer].resubmission = updateFunc[PodConsumer].resubmission
       /\ (updateFunc[PodConsumer].kind = "submit" /\ pc'[PodConsumer] = "idle")
            => /\ pc[PodConsumer] = "submitted"
               /\ Len(outcomes[PodConsumer]) > 0
               /\ ret[PodConsumer].exists => nSubmit[PodConsumer] = 1]_vars

C13_Witness ==
    /\ pc[PodConsumer] = "submitted"
    /\ updateFunc[PodConsumer].resubmission
    /\ nSubmit[PodConsumer] = 1
    /\ submitted = 2
    /\ driverSent + executorSent < MaxPodUpdates

\* C15: when the pod state consumer takes a driver or executor update while
\* the store has no such job, the update is dropped: the consumer starts no
\* status update (no Update, no Get), records no event, evaluates no restart,
\* submits nothing, leaves the persisted resource alone and is free to take
\* the next update.
C15_AbsentJobSwallowed ==
    [][((driverSent' # driverSent \/ executorSent' # executorSent) /\ ~store.exists)
          => /\ pc'[PodConsumer] = "idle"
             /\ updateFunc'[PodConsumer].kind = "none"
             /\ outcomes'[PodConsumer] = <<>>
             /\ fetched'[PodConsumer] = <<>>
             /\ nSubmit'[PodConsumer] = 0
             /\ UNCHANGED <<api, events, submitted>>]_vars

C15_Witness ==
    /\ swallowed = 2
    /\ driverSent = 1 /\ executorSent = 1
    /\ ~store.exists
    /\ pc[PodConsumer] = "idle"
    /\ events["SparkApplicationTermination"] = 0
    /\ submitted = 1

\* C14: no step of the app state consumer submits, records a resubmission or
\* starts submitApp, whatever state the update carries and whatever the
\* policy; a submitApp with resubmission = true runs on the pod state consumer
\* only, and it starts only from a driver update that returned a terminal job.
C14_AppUpdateNeverResubmits ==
    [][/\ (pc'[AppConsumer] # pc[AppConsumer] \/ appSent' # appSent)
            => /\ submitted' = submitted
               /\ events'["SparkApplicationResubmission"] =
                     events["SparkApplicationResubmission"]
               /\ updateFunc'[AppConsumer].kind \in {"none", "app"}
               /\ pc'[AppConsumer] # "submitted"
       /\ \A t \in Threads :
             (updateFunc'[t].kind = "submit" /\ updateFunc'[t].resubmission)
                => /\ t = PodConsumer
                   /\ updateFunc[t].kind = "submit" \/ Terminal(t)
       /\ events'["SparkApplicationResubmission"] # events["SparkApplicationResubmission"]
            => Terminal(PodConsumer)]_vars

C14_Witness ==
    /\ pc[AppConsumer] = "idle" /\ pc[PodConsumer] = "idle"
    /\ appSent = 1 /\ driverSent = 0
    /\ api.exists
    /\ api.status.state = FailedState
    /\ api.policy = Always
    /\ submitted = 1
    /\ events["SparkApplicationResubmission"] = 0

\* C17: every tryUpdate of a driver update leaves in the copy it mutated the
\* state the table gives for the update's phase (Pending to Submitted,
\* Running to Running, Succeeded to Completed, Failed to Failed, any other
\* phase, the empty one included, to Unknown), and when the write is accepted
\* that is the state persisted and returned.
C17_PhaseMapping ==
    [][(pc[PodConsumer] = "try" /\ updateFunc[PodConsumer].kind = "driver"
          /\ pc'[PodConsumer] # "try")
          => LET ph == updateFunc[PodConsumer].update.podPhase
                 expected == IF ph = "Pending" THEN "SUBMITTED"
                             ELSE IF ph = "Running" THEN "RUNNING"
                             ELSE IF ph = "Succeeded" THEN "COMPLETED"
                             ELSE IF ph = "Failed" THEN "FAILED"
                             ELSE "UNKNOWN"
             IN  /\ toUpdate'[PodConsumer].status.state = expected
                 /\ ret'[PodConsumer].exists
                      => /\ ret'[PodConsumer].status.state = expected
                         /\ api'.status.state = expected]_vars

C17_Witness ==
    /\ pc[PodConsumer] = "returned"
    /\ updateFunc[PodConsumer].kind = "driver"
    /\ updateFunc[PodConsumer].update.podPhase = ""
    /\ ret[PodConsumer].exists
    /\ api.exists /\ api.status.state = UnknownState

\* C16: in the scenario the persisted state only ever moves one step along
\* "", New, Submitted, Running, Completed; New comes with an appID and one
\* submission; and once the worker and both consumers have handled everything
\* the job is Completed with the completion time of the Succeeded update,
\* exactly one termination event was recorded, and nothing was resubmitted.
C16_Scenario ==
    [][LET order == <<"", NewState, SubmittedState, RunningState, CompletedState>>
           rank(st) == CHOOSE n \in 1..5 : order[n] = st
           before == IF api.exists THEN api.status.state ELSE ""
           after == IF api'.exists THEN api'.status.state ELSE ""
           finished == /\ driverSent' = 2 /\ pc'[PodConsumer] = "idle"
                       /\ pc'[AppConsumer] = "idle"
       IN  /\ after \in {order[n] : n \in 1..5}
           /\ after # before => rank(after) = rank(before) + 1
           /\ after = NewState => api'.status.appID # 0
           /\ appSent' = 1 => submitted' = 1
           /\ finished => /\ api'.status.state = CompletedState
                          /\ api'.status.completionTime = 1
                          /\ api'.status.submissionTime = 1
                          /\ api'.status.podName = "driver"
                          /\ events'["SparkApplicationTermination"] = 1
                          /\ events'["SparkApplicationResubmission"] = 0
                          /\ submitted' = 1]_vars

C16_Witness ==
    /\ driverSent = 2
    /\ pc[PodConsumer] = "idle" /\ pc[AppConsumer] = "idle"
    /\ api.status.state = CompletedState
    /\ api.status.completionTime = 1
    /\ events["SparkApplicationTermination"] = 1
    /\ events["SparkApplicationResubmission"] = 0
    /\ submitted = 1

\* A driver update has been persisted for the job's current submission: a
\* (re)submission clears the driver's pod name and only a driver update sets it.
DriverPersisted(a) == a.exists /\ a.status.podName # ""

\* C18: once a driver update has been persisted for the current submission,
\* the persisted state changes only by the write of a driver update, to the
\* mapping of that update's phase, and when the pod state consumer has handled
\* a driver update the persisted state is the mapping of its phase: neither a
\* later app state update nor a lagging cache makes it differ.
C18_StateFollowsDriverPhase ==
    [][/\ (DriverPersisted(api) /\ DriverPersisted(api')
             /\ api'.status.state # api.status.state)
            => /\ pc[PodConsumer] = "try" /\ pc'[PodConsumer] = "returned"
               /\ updateFunc[PodConsumer].kind = "driver"
               /\ api'.status.state =
                     driverPodPhaseToApplicationState(updateFunc[PodConsumer].update.podPhase)
       /\ (pc[PodConsumer] = "returned" /\ updateFunc[PodConsumer].kind = "driver"
             /\ pc'[PodConsumer] # "returned" /\ DriverPersisted(api))
            => api.status.state =
                  driverPodPhaseToApplicationState(updateFunc[PodConsumer].update.podPhase)]_vars

\* C19: when the only driver observations are deliveries of one terminal
\* observation, at most one termination event is recorded and the job is
\* resubmitted at most once: one resubmission event, at most two submissions
\* handed to the runner in all.
C19_OneRestartPerTermination ==
    /\ events["SparkApplicationTermination"] <= 1
    /\ events["SparkApplicationResubmission"] <= 1
    /\ submitted <= 2

\* Thread t's Update call is accepted in this step.
Accepted(t) ==
    /\ pc[t] = "try" /\ pc'[t] = "returned"
    /\ ret'[t].exists

\* The entries of an executor-state mapping for pods other than `podName'.
Others(entries, podName) == {e \in entries : e[1] # podName}

\* C20: every accepted status write starts from the latest persisted version
\* (the copy the closure was applied to is that version), and it keeps every
\* field its closure does not set: an app update keeps the driver's pod name,
\* address and completion time and the executor entries; a driver update
\* keeps the submission time, the error message and the executor entries; an
\* executor update keeps all of those and the entries of other pods; only the
\* reset of a resubmission clears fields.
C20_NoLostUpdate ==
    [][\A t \in Threads :
          Accepted(t)
             => LET fn == updateFunc[t]
                    before == api.status
                    after == api'.status
                IN  /\ toUpdate[t].fresh
                    /\ toUpdate[t].status = before
                    /\ fn.kind = "app"
                         => /\ after.podName = before.podName
                            /\ after.webUIAddress = before.webUIAddress
                            /\ after.completionTime = before.completionTime
                            /\ after.executorState = before.executorState
                            /\ after.appID = before.appID
                    /\ fn.kind = "driver"
                         => /\ after.submissionTime = before.submissionTime
                            /\ after.errorMessage = before.errorMessage
                            /\ after.executorState = before.executorState
                            /\ after.appID = before.appID
                    /\ fn.kind = "executor"
                         => /\ after.submissionTime = before.submissionTime
                            /\ after.errorMessage = before.errorMessage
                            /\ after.state = before.state
                            /\ after.podName = before.podName
                            /\ after.completionTime = before.completionTime
                            /\ after.appID = before.appID
                            /\ Others(before.executorState, fn.update.podName)
                                  \subseteq after.executorState
                    /\ (fn.kind = "submit" /\ ~fn.resubmission)
                         => /\ after.submissionTime = before.submissionTime
                            /\ after.podName = before.podName
                            /\ after.completionTime = before.completionTime
                            /\ after.executorState = before.executorState]_vars

C20_Witness ==
    /\ pc[PodConsumer] = "returned"
    /\ updateFunc[PodConsumer].kind = "driver"
    /\ ret[PodConsumer].exists
    /\ outcomes[PodConsumer] = <<"conflict", "ok">>
    /\ original[PodConsumer].status.submissionTime = 0
    /\ original[PodConsumer].status.state = NewState
    /\ api.status.submissionTime # 0
    /\ api.status.podName = "driver"

====
